---------------------------- MODULE Spec2Model ----------------------------
(***************************************************************************)
(* A model of src/src/libcollections/bitv.rs: the word-packed bit vector   *)
(* Bitv and the growable integer set BitvSet built on top of it.           *)
(*                                                                         *)
(* A machine word (uint) is modelled as a natural number below 2^W, the    *)
(* bitwise operators are computed bit by bit, and a Bitv is the record     *)
(* [storage |-> <sequence of words>, nbits |-> <number>].  Rust vectors    *)
(* are indexed from 0, TLA+ sequences from 1: word w of the source is      *)
(* storage[w + 1] here.  The word width uint::BITS (32 or 64 in a build)   *)
(* is scaled down to W so that word boundaries are reached by small        *)
(* values; nothing in the model depends on the particular width.           *)
(***************************************************************************)
EXTENDS Naturals, Sequences, FiniteSets

VARIABLES
    bv,       \* the Bitv a caller owns and mutates
    sets,     \* the two BitvSets a caller owns: sets[1], sets[2]
    last,     \* the last call made: its name, receiver and outcome
    visited,  \* the values handed to the visitor by the last enumeration
    it,       \* the Bits iterator over bv a caller holds, if it holds one
    yielded,  \* the bits that iterator has yielded, at its front and at its back
    stop_on,  \* the values on which the visitor of the last enumeration
              \* returns false
    v1,       \* the second Bitv a caller owns: the argument of bv's union,
              \* intersect, difference, assign and eq
    port      \* a channel of byte messages, the PortReader on its port and
              \* the read call in progress on it

vars == <<bv, sets, last, visited, it, yielded, stop_on, v1, port>>

---------------------------------------------------------------------------
(* Sizes *)

\* uint::BITS, scaled down
W == 2

\* largest value handed to insert / remove and to the visitors
MaxVal == 2

\* the storage words that hold the values 0..MaxVal: no set or vector of the
\* model is grown beyond them
MaxWords == MaxVal \div W + 1

\* the longest Bitv handed to to_bytes: a byte and a bit
MaxLen == 9

Values == 0..MaxVal
MaxBits == MaxWords * W

\* every bit position a storage of MaxWords words has, and the one after
Pos == 0..MaxBits

---------------------------------------------------------------------------
(* Machine words *)

RECURSIVE Pow2(_)
Pow2(n) == IF n = 0 THEN 1 ELSE 2 * Pow2(n - 1)

\* !0u
AllOnes == Pow2(W) - 1

\* bit i of word x, as 0 or 1
BitOf(x, i) == (x \div Pow2(i)) % 2

RECURSIVE And(_, _)
\* x & y, bit by bit from the low end
And(x, y) == IF x = 0 \/ y = 0 THEN 0
             ELSE (x % 2) * (y % 2) + 2 * And(x \div 2, y \div 2)

RECURSIVE Or(_, _)
\* x | y
Or(x, y) == IF x = 0 THEN y
            ELSE IF y = 0 THEN x
            ELSE (IF (x % 2) + (y % 2) > 0 THEN 1 ELSE 0) + 2 * Or(x \div 2, y \div 2)

RECURSIVE Xor(_, _)
\* x ^ y
Xor(x, y) == IF x = 0 THEN y
             ELSE IF y = 0 THEN x
             ELSE (((x % 2) + (y % 2)) % 2) + 2 * Xor(x \div 2, y \div 2)

\* !x
Not(x) == AllOnes - x
\* x << n, in a word
Shl(x, n) == (x * Pow2(n)) % Pow2(W)

\* u32::count_ones
RECURSIVE CountOnesTo(_, _)
CountOnesTo(x, n) == IF n = 0 THEN 0 ELSE CountOnesTo(x, n - 1) + BitOf(x, n - 1)
count_ones(x) == CountOnesTo(x, W)

Max(a, b) == IF a >= b THEN a ELSE b

---------------------------------------------------------------------------
(* Bitv *)

\* Bitv::new(nbits, init)
Bitv_new(nbits, init) ==
    [storage |-> [k \in 1..((nbits + W - 1) \div W) |-> IF init THEN AllOnes ELSE 0],
     nbits   |-> nbits]

\* the mask MaskWords applies to the last word of the storage
last_word_mask(b) ==
    LET rem == b.nbits % W
    IN  IF rem > 0 THEN Shl(1, rem) - 1 ELSE AllOnes

\* Bitv::mask_words(start) run to exhaustion: the sequence of (offset, word)
\* pairs MaskWords::next yields.  Only the last word OF THE STORAGE is masked.
mask_words(b, start0) ==
    LET len   == Len(b.storage)
        start == IF start0 > len THEN len ELSE start0
    IN  [k \in 1..(len - start) |->
            LET off == start + k - 1
                w   == b.storage[off + 1]
            IN  IF off = len - 1 THEN <<off, And(w, last_word_mask(b))>>
                                 ELSE <<off, w>>]

\* the assertion and the bounds check of Bitv::get / Bitv::set fail
index_fails(b, i) == ~(i < b.nbits) \/ ~(i \div W < Len(b.storage))

\* Bitv::get(i), where it does not fail
get(b, i) ==
    LET w == i \div W
        bb == i % W
        x == And(b.storage[w + 1], Shl(1, bb))
    IN  x # 0

\* a set that stores the flag, or 0, as the whole word of bit i
set_whole_word(b, i, x) ==
    LET w == i \div W
        bb == i % W
        flag == Shl(1, bb)
    IN  [b EXCEPT !.storage[w + 1] = IF x THEN flag ELSE 0]

\* Bitv::set(i, x), where it does not fail
set(b, i, x) ==
    LET w == i \div W
        bb == i % W
        flag == Shl(1, bb)
    IN  [b EXCEPT !.storage[w + 1] = IF x THEN Or(@, flag) ELSE And(@, Not(flag))]

\* Bitv::clear
clear(b) == [b EXCEPT !.storage = [k \in 1..Len(b.storage) |-> 0]]

\* Bitv::set_all
set_all(b) == [b EXCEPT !.storage = [k \in 1..Len(b.storage) |-> AllOnes]]

\* Bitv::negate
negate(b) == [b EXCEPT !.storage = [k \in 1..Len(b.storage) |-> Not(b.storage[k])]]

RECURSIVE all_scan(_, _, _)
\* the closure of Bitv::all folded over the masked words from position k on:
\* Iterator::all stops at the first word whose predecessor is not all-ones.
\* Returns <<whether every call returned true, last_word>>.
all_scan(mw, k, last_word) ==
    IF k > Len(mw) THEN <<TRUE, last_word>>
    ELSE LET tmp == last_word
             elem == mw[k][2]
         IN  IF tmp = AllOnes THEN all_scan(mw, k + 1, elem)
                              ELSE <<FALSE, elem>>

\* Bitv::all
all(b) ==
    LET r == all_scan(mask_words(b, 0), 1, AllOnes)
        last_word == r[2]
    IN  r[1] /\ (last_word = Shl(1, b.nbits % W) - 1 \/ last_word = AllOnes)

\* none over the stored words as they are
none_unmasked(b) == \A k \in 1..Len(b.storage) : b.storage[k] = 0

\* Bitv::none
none(b) == \A k \in 1..Len(b.storage) : mask_words(b, 0)[k][2] = 0

\* Bitv::any
any(b) == ~none(b)

---------------------------------------------------------------------------
(* Bits: the iterator of a Bitv.  An Option<bool> is <<>> for None and     *)
(* <<x>> for Some(x).                                                      *)

\* the caller holds no iterator
NoBits == [live |-> FALSE, next_idx |-> 0, end_idx |-> 0]
NothingYielded == [front |-> <<>>, back |-> <<>>]

\* Bitv::iter
Bitv_iter(b) == [live |-> TRUE, next_idx |-> 0, end_idx |-> b.nbits]

\* Bits::next with the front cursor compared to the length of the Bitv
Bits_next_to_the_length(b, s) ==
    IF s.next_idx # b.nbits
      THEN [bits |-> [s EXCEPT !.next_idx = @ + 1], ret |-> <<get(b, s.next_idx)>>]
      ELSE [bits |-> s, ret |-> <<>>]

\* Bits::next: [bits |-> the iterator afterwards, ret |-> the Option returned]
Bits_next(b, s) ==
    IF s.next_idx # s.end_idx
      THEN LET idx == s.next_idx
           IN  [bits |-> [s EXCEPT !.next_idx = @ + 1], ret |-> <<get(b, idx)>>]
      ELSE [bits |-> s, ret |-> <<>>]

\* Bits::next_back
Bits_next_back(b, s) ==
    IF s.next_idx # s.end_idx
      THEN LET moved == [s EXCEPT !.end_idx = @ - 1]
           IN  [bits |-> moved, ret |-> <<get(b, moved.end_idx)>>]
      ELSE [bits |-> s, ret |-> <<>>]

\* Bits::indexable
Bits_indexable(s) == s.end_idx - s.next_idx

\* Bits::idx(index): the iterator is left as it was
Bits_idx(b, s, index) ==
    IF index >= Bits_indexable(s) THEN <<>> ELSE <<get(b, index)>>

---------------------------------------------------------------------------
(* BitvSet: a Bitv used as the backing store *)

\* BitvSet::from_bitv
from_bitv(b) == b

\* BitvSet::capacity
capacity(s) == Len(s.storage) * W

\* BitvSet::grow(size): Vec::grow appends size - old_size zero words
grow(s, size0) ==
    LET old_size == Len(s.storage)
        size == (size0 + W - 1) \div W
    IN  IF old_size < size
          THEN [s EXCEPT !.storage = @ \o [k \in 1..(size - old_size) |-> 0]]
          ELSE s

\* the closures handed to other_op and to process:
\* |w1, w2| w1 | w2, w1 & w2, w1 & !w2, w1 ^ w2, and |_, w| w
apply_op(f, w1, w2) ==
    CASE f = "or"      -> Or(w1, w2)
      [] f = "and"     -> And(w1, w2)
      [] f = "and_not" -> And(w1, Not(w2))
      [] f = "xor"     -> Xor(w1, w2)
      [] f = "second"  -> w2

\* BitvSet::other_op(other, f): the loop stores f(old, w) at every index the
\* masked iterator of `other` yields; nbits of self is not assigned.
other_op(self, other, f) ==
    LET grown == grow(self, capacity(other))
        mw == mask_words(other, 0)
    IN  [grown EXCEPT !.storage =
            [k \in 1..Len(grown.storage) |->
                IF k <= Len(mw) THEN apply_op(f, grown.storage[k], mw[k][2])
                                ELSE grown.storage[k]]]

RECURSIVE trailing_zero_words(_, _)
\* storage.iter().rev().take_while(|&&n| n == 0).count(), over the first k words
trailing_zero_words(st, k) ==
    IF k = 0 THEN 0
    ELSE IF st[k] = 0 THEN 1 + trailing_zero_words(st, k - 1) ELSE 0

\* Vec::truncate(len): shortens, never lengthens
truncate(st, len) == IF len < Len(st) THEN SubSeq(st, 1, len) ELSE st

\* shrink_to_fit with every zero word counted, not only the trailing ones
shrink_to_fit_any_zero(s) ==
    LET old_len == Len(s.storage)
        n == Cardinality({k \in 1..old_len : s.storage[k] = 0})
        trunc_len == Max(old_len - n, 1)
    IN  [storage |-> truncate(s.storage, trunc_len), nbits |-> trunc_len * W]

\* BitvSet::shrink_to_fit
shrink_to_fit(s) ==
    LET old_len == Len(s.storage)
        n == trailing_zero_words(s.storage, old_len)
        trunc_len == Max(old_len - n, 1)
    IN  [storage |-> truncate(s.storage, trunc_len), nbits |-> trunc_len * W]

\* BitvSet::union_with
union_with(self, other) == other_op(self, other, "or")
\* BitvSet::intersect_with
intersect_with(self, other) == other_op(self, other, "and")
\* BitvSet::difference_with
difference_with(self, other) == other_op(self, other, "and_not")
\* BitvSet::symmetric_difference_with
symmetric_difference_with(self, other) == other_op(self, other, "xor")

\* BitvSet::clear (Mutable)
BitvSet_clear(s) == clear(s)

\* BitvSet::contains fails: value < nbits holds and Bitv::get indexes a word
\* the storage does not have
contains_fails(s, value) == value < s.nbits /\ index_fails(s, value)

\* BitvSet::contains, where it does not fail
contains(s, value) == value < s.nbits /\ ~index_fails(s, value) /\ get(s, value)

\* BitvSet::insert, where its call of contains does not fail:
\* [set |-> the set afterwards, ret |-> the value returned]
insert(s, value) ==
    IF contains(s, value) THEN [set |-> s, ret |-> FALSE]
    ELSE LET grown == IF value >= capacity(s)
                        THEN grow(s, Max(value + 1, capacity(s) * 2))
                        ELSE s
             raised ==
                IF value >= grown.nbits
                  THEN LET old_rem == grown.nbits % W
                           old_last_word == (grown.nbits + W - 1) \div W - 1
                           masked ==
                             IF old_rem # 0
                               THEN [grown EXCEPT !.storage[old_last_word + 1] =
                                        And(@, Shl(1, old_rem) - 1)]
                               ELSE grown
                       IN  [masked EXCEPT !.nbits = value + 1]
                  ELSE grown
         IN  [set |-> set(raised, value, TRUE), ret |-> TRUE]

\* BitvSet::remove, where its call of contains does not fail
remove(s, value) ==
    IF ~contains(s, value) THEN [set |-> s, ret |-> FALSE]
    ELSE [set |-> set(s, value, FALSE), ret |-> TRUE]

\* the visitor that returns true at every call
NeverStops == {}

\* the visitor handed to an enumeration: it returns false (stop) exactly on
\* the values in `stops`
visitor(stops, b) == b \notin stops

RECURSIVE iterate_bits_from(_, _, _, _)
\* the loop of iterate_bits from bit i on:
\* [seen |-> the values handed to f, in order, ret |-> the value returned]
iterate_bits_from(base, bits, i, stops) ==
    IF i >= W THEN [seen |-> <<>>, ret |-> TRUE]
    ELSE IF And(bits, Shl(1, i)) # 0
           THEN IF ~visitor(stops, base + i)
                  THEN [seen |-> <<base + i>>, ret |-> FALSE]
                  ELSE LET r == iterate_bits_from(base, bits, i + 1, stops)
                       IN  [seen |-> <<base + i>> \o r.seen, ret |-> r.ret]
           ELSE iterate_bits_from(base, bits, i + 1, stops)

\* iterate_bits(base, bits, f)
iterate_bits(base, bits, stops) ==
    IF bits = 0 THEN [seen |-> <<>>, ret |-> TRUE]
    ELSE iterate_bits_from(base, bits, 0, stops)

\* commons with the word index left unscaled
commons_unscaled(self, other) ==
    LET a == mask_words(self, 0)
        b == mask_words(other, 0)
        n == IF Len(a) <= Len(b) THEN Len(a) ELSE Len(b)
    IN  [k \in 1..n |-> <<a[k][1], a[k][2], b[k][2]>>]

\* BitvSet::commons: the zip of the two masked iterators ends with the
\* shorter one; yields (bit offset, w1, w2)
commons(self, other) ==
    LET a == mask_words(self, 0)
        b == mask_words(other, 0)
        n == IF Len(a) <= Len(b) THEN Len(a) ELSE Len(b)
    IN  [k \in 1..n |-> <<a[k][1] * W, a[k][2], b[k][2]>>]

\* BitvSet::outliers: yields (mine, bit offset, word)
outliers(self, other) ==
    LET slen == capacity(self) \div W
        olen == capacity(other) \div W
        mw == IF olen < slen THEN mask_words(self, olen) ELSE mask_words(other, slen)
    IN  [k \in 1..Len(mw) |-> <<olen < slen, mw[k][1] * W, mw[k][2]>>]

RECURSIVE iterate_words_to_the_end(_, _, _)
\* iterate_words going on to the next word after a call returned false
iterate_words_to_the_end(ws, k, stops) ==
    IF k > Len(ws) THEN [seen |-> <<>>, ret |-> TRUE]
    ELSE LET r == iterate_bits(ws[k][1], ws[k][2], stops)
             rest == iterate_words_to_the_end(ws, k + 1, stops)
         IN  [seen |-> r.seen \o rest.seen, ret |-> r.ret /\ rest.ret]

RECURSIVE iterate_words(_, _, _)
\* iterate_bits over the (offset, bits) pairs of ws from position k on, in
\* order, returning false at the first call that returns false
iterate_words(ws, k, stops) ==
    IF k > Len(ws) THEN [seen |-> <<>>, ret |-> TRUE]
    ELSE LET r == iterate_bits(ws[k][1], ws[k][2], stops)
         IN  IF ~r.ret THEN r
             ELSE LET rest == iterate_words(ws, k + 1, stops)
                  IN  [seen |-> r.seen \o rest.seen, ret |-> rest.ret]

\* the (offset, f(w1, w2)) pairs of the common words
common_words(self, other, f) ==
    LET c == commons(self, other)
    IN  [k \in 1..Len(c) |-> <<c[k][1], apply_op(f, c[k][2], c[k][3])>>]

\* the (offset, word) pairs of the outliers
outlier_words(self, other) ==
    LET o == outliers(self, other)
    IN  [k \in 1..Len(o) |-> <<o[k][2], o[k][3]>>]

\* the outliers BitvSet::difference iterates: `!mine || iterate_bits(..)`
\* calls iterate_bits on the words of self alone
mine_words(self, other) ==
    LET mine == SelectSeq(outliers(self, other), LAMBDA x : x[1])
    IN  [k \in 1..Len(mine) |-> <<mine[k][2], mine[k][3]>>]

\* BitvSet::difference(other, f)
difference(self, other, stops) ==
    iterate_words(common_words(self, other, "and_not") \o mine_words(self, other),
                  1, stops)

\* BitvSet::symmetric_difference(other, f)
symmetric_difference(self, other, stops) ==
    iterate_words(common_words(self, other, "xor") \o outlier_words(self, other),
                  1, stops)

\* BitvSet::intersection(other, f)
intersection(self, other, stops) ==
    iterate_words(common_words(self, other, "and"), 1, stops)

\* BitvSet::union(other, f)
union(self, other, stops) ==
    iterate_words(common_words(self, other, "or") \o outlier_words(self, other),
                  1, stops)

---------------------------------------------------------------------------
(* Bitv: the whole-vector operations *)

\* the assertion of Bitv::process fails
process_fails(self, other) == Len(self.storage) # Len(other.storage)

\* process with the first word alone combined
process_first_word(self, other, op) ==
    LET mw == mask_words(other, 0)
        w == [k \in 1..Len(self.storage) |->
                IF k = 1 THEN apply_op(op, self.storage[k], mw[k][2])
                         ELSE self.storage[k]]
    IN  [bitv    |-> [self EXCEPT !.storage = w],
         changed |-> \E k \in 1..Len(w) : self.storage[k] # w[k]]

\* Bitv::process(other, op), where its assertion holds: every word a of self
\* becomes op(a, b), b the masked word of other;
\* [bitv |-> self afterwards, changed |-> the value returned]
process(self, other, op) ==
    LET mw == mask_words(other, 0)
        w == [k \in 1..Len(self.storage) |-> apply_op(op, self.storage[k], mw[k][2])]
    IN  [bitv    |-> [self EXCEPT !.storage = w],
         changed |-> \E k \in 1..Len(w) : self.storage[k] # w[k]]

\* Bitv::union
Bitv_union(self, other) == process(self, other, "or")
\* Bitv::intersect
Bitv_intersect(self, other) == process(self, other, "and")
\* Bitv::assign
Bitv_assign(self, other) == process(self, other, "second")
\* Bitv::difference
Bitv_difference(self, other) == process(self, other, "and_not")

\* the inner fn bit of to_bytes with the first bit in the low-order place
to_bytes_bit_low_first(b, byte, bit) ==
    LET offset == byte * 8 + bit
    IN  IF offset >= b.nbits THEN 0
        ELSE ((IF get(b, offset) THEN 1 ELSE 0) * Pow2(bit)) % 256

\* the inner fn bit(bitv, byte, bit) of to_bytes: `bitv[offset] as u8 << (7 - bit)`
to_bytes_bit(b, byte, bit) ==
    LET offset == byte * 8 + bit
    IN  IF offset >= b.nbits THEN 0
        ELSE ((IF get(b, offset) THEN 1 ELSE 0) * Pow2(7 - bit)) % 256

\* Bitv::to_bytes: byte i is the | of its eight bits
to_bytes(b) ==
    LET len == b.nbits \div 8 + (IF b.nbits % 8 = 0 THEN 0 ELSE 1)
    IN  [k \in 1..len |->
            LET i == k - 1
            IN  Or(to_bytes_bit(b, i, 0),
                Or(to_bytes_bit(b, i, 1),
                Or(to_bytes_bit(b, i, 2),
                Or(to_bytes_bit(b, i, 3),
                Or(to_bytes_bit(b, i, 4),
                Or(to_bytes_bit(b, i, 5),
                Or(to_bytes_bit(b, i, 6),
                   to_bytes_bit(b, i, 7))))))))]

RECURSIVE from_fn_loop(_, _, _, _)
\* the loop of from_fn from index i on: bitv.set(i, f(i)); the closure f is
\* the function f[i]
from_fn_loop(bitv, f, i, len) ==
    IF i >= len THEN bitv
    ELSE from_fn_loop(set(bitv, i, f[i]), f, i + 1, len)

\* from_fn(len, f)
from_fn(len, f) == from_fn_loop(Bitv_new(len, FALSE), f, 0, len)

\* from_bytes with the low-order bit of each byte first
from_bytes_low_first(bytes) ==
    from_fn(Len(bytes) * 8,
            [i \in 0..(Len(bytes) * 8 - 1) |->
                LET b == bytes[i \div 8 + 1]
                    offset == i % 8
                IN  And(b \div Pow2(offset), 1) = 1])

\* from_bytes(bytes): bit i is `b >> (7 - offset) & 1 == 1`
from_bytes(bytes) ==
    from_fn(Len(bytes) * 8,
            [i \in 0..(Len(bytes) * 8 - 1) |->
                LET b == bytes[i \div 8 + 1]
                    offset == i % 8
                IN  And(b \div Pow2(7 - offset), 1) = 1])

\* eq with the stored words compared as they are
eq_unmasked(self, other) ==
    IF self.nbits # other.nbits THEN FALSE
    ELSE self.storage = other.storage

\* PartialEq::eq for Bitv: the zip of the masked words ends with the shorter
eq(self, other) ==
    IF self.nbits # other.nbits THEN FALSE
    ELSE LET a == mask_words(self, 0)
             b == mask_words(other, 0)
             n == IF Len(a) <= Len(b) THEN Len(a) ELSE Len(b)
         IN  \A k \in 1..n : a[k][2] = b[k][2]

---------------------------------------------------------------------------
(* BitvSet: the comparisons and the cardinality *)

\* the visitor |_| false of is_disjoint: it returns false on every value
AlwaysStops == Pos

\* BitvSet::is_disjoint
is_disjoint(self, other) == intersection(self, other, AlwaysStops).ret

RECURSIVE outliers_scan(_, _)
\* the second loop of is_subset, from position k of the outliers on
outliers_scan(o, k) ==
    IF k > Len(o) THEN TRUE
    ELSE LET mine == o[k][1]
             w == o[k][3]
         IN  IF ~mine THEN TRUE
             ELSE IF w # 0 THEN FALSE
             ELSE outliers_scan(o, k + 1)

\* is_subset with the common words alone compared
is_subset_of_commons(self, other) ==
    LET c == commons(self, other)
    IN  ~\E k \in 1..Len(c) : And(c[k][2], c[k][3]) # c[k][2]

\* BitvSet::is_subset
is_subset(self, other) ==
    LET c == commons(self, other)
    IN  IF \E k \in 1..Len(c) : And(c[k][2], c[k][3]) # c[k][2]
          THEN FALSE
          ELSE outliers_scan(outliers(self, other), 1)

\* BitvSet::is_superset
is_superset(self, other) == is_subset(other, self)

RECURSIVE BitPositions_next_stored_bit(_, _)
\* BitPositions::next with the stored bit read as it is, without contains
BitPositions_next_stored_bit(s, next_idx) ==
    IF next_idx < capacity(s)
      THEN IF get(s, next_idx)
             THEN [next_idx |-> next_idx + 1, ret |-> <<next_idx>>]
             ELSE BitPositions_next_stored_bit(s, next_idx + 1)
      ELSE [next_idx |-> next_idx, ret |-> <<>>]

RECURSIVE BitPositions_next(_, _)
\* BitPositions::next on the iterator of set s whose cursor is next_idx:
\* [next_idx |-> the cursor afterwards, ret |-> the Option returned]
BitPositions_next(s, next_idx) ==
    IF next_idx < capacity(s)
      THEN LET idx == next_idx
           IN  IF contains(s, idx)
                 THEN [next_idx |-> idx + 1, ret |-> <<idx>>]
                 ELSE BitPositions_next(s, idx + 1)
      ELSE [next_idx |-> next_idx, ret |-> <<>>]

RECURSIVE for_each_position(_, _)
\* `for n in self.iter()` from the cursor next_idx on: the values yielded
\* until next returns None
for_each_position(s, next_idx) ==
    LET r == BitPositions_next(s, next_idx)
    IN  IF r.ret = <<>> THEN <<>>
        ELSE r.ret \o for_each_position(s, r.next_idx)

\* BitvSet::iter run to its end, as Show::fmt runs it
BitvSet_iter(s) == for_each_position(s, 0)

RECURSIVE count_ones_fold(_, _)
\* storage.iter().fold(0, |acc, &n| acc + n.count_ones()), over the first k words
count_ones_fold(st, k) ==
    IF k = 0 THEN 0 ELSE count_ones_fold(st, k - 1) + count_ones(st[k])

\* BitvSet::len (Collection)
len(s) == count_ones_fold(s.storage, Len(s.storage))

---------------------------------------------------------------------------
(* PortReader: std::io::comm_adapters *)

\* the most messages sent on the channel, the longest message, and the
\* largest buffer handed to read
MaxMsgs == 3
MaxMsgLen == 2
MaxRead == 3

\* what the caller's buffer holds before a read; the bytes sent are numbered
\* from 1 in send order (read never inspects a byte)
Untouched == 0

Min(a, b) == IF a <= b THEN a ELSE b

RECURSIVE Flatten(_)
Flatten(msgs) == IF msgs = <<>> THEN <<>> ELSE Head(msgs) \o Flatten(Tail(msgs))

\* PortReader::new(port), on a fresh channel: chan is the queue of messages
\* in flight, hung_up whether the sending end is dropped; buf, pos, closed
\* are the reader's fields; dst, num_read, at_recv are the frame of the last
\* read call (at_recv: it is blocked in recv_opt); sent and got are the
\* messages sent and the bytes the completed reads returned; done_at_call
\* and closed_at_call record what held when the last read was called
PortReader_new ==
    [chan |-> <<>>, hung_up |-> FALSE,
     buf |-> <<>>, pos |-> 0, closed |-> FALSE,
     dst |-> <<>>, num_read |-> 0, at_recv |-> FALSE,
     sent |-> <<>>, got |-> <<>>,
     done_at_call |-> FALSE, closed_at_call |-> FALSE]

\* the copy from the reader's buffer that reads from the first byte of the
\* buffered message again
read_copy_from_start(r) ==
    IF r.buf = <<>>
      THEN r
      ELSE LET prev == r.buf[1]
               count == Min(Len(r.dst) - r.num_read, Len(prev))
           IN  [r EXCEPT !.dst = [k \in 1..Len(r.dst) |->
                                     IF k > r.num_read /\ k <= r.num_read + count
                                       THEN prev[k - r.num_read]
                                       ELSE r.dst[k]],
                         !.num_read = @ + count,
                         !.pos = @ + count]

\* match self.buf { Some(ref prev) => copy min(dst.len(), src.len()) bytes of
\* prev from pos on into buf from num_read on; None => () }
read_copy(r) ==
    IF r.buf = <<>>
      THEN r
      ELSE LET prev == r.buf[1]
               count == Min(Len(r.dst) - r.num_read, Len(prev) - r.pos)
           IN  [r EXCEPT !.dst = [k \in 1..Len(r.dst) |->
                                     IF k > r.num_read /\ k <= r.num_read + count
                                       THEN prev[r.pos + (k - r.num_read)]
                                       ELSE r.dst[k]],
                         !.num_read = @ + count,
                         !.pos = @ + count]

\* the value read returns once its loop is left
read_result(r) == IF r.closed /\ r.num_read = 0 THEN <<>> ELSE <<r.num_read>>

\* one pass of read's loop from its top down to the break or to recv_opt
read_loop(r) ==
    LET c == read_copy(r)
    IN  IF c.num_read = Len(c.dst) \/ c.closed
          THEN [c EXCEPT !.at_recv = FALSE,
                         !.got = @ \o SubSeq(c.dst, 1, c.num_read)]
          ELSE [c EXCEPT !.at_recv = TRUE]

\* self.pos = 0; self.buf = self.port.recv_opt(); self.closed = self.buf.is_none()
read_recv(r) ==
    IF r.chan # <<>>
      THEN [r EXCEPT !.pos = 0, !.buf = <<Head(r.chan)>>, !.chan = Tail(r.chan),
                     !.closed = FALSE]
      ELSE [r EXCEPT !.pos = 0, !.buf = <<>>, !.closed = TRUE]

---------------------------------------------------------------------------
(* The state after construction, and the record of a call *)

\* BitvSet::new
BitvSet_new == Bitv_new(0, FALSE)

\* op: the operation, who: the receiver (1 or 2: sets[who]; 0: bv),
\* ret: the value returned (FALSE when there is none; an Option is <<>> for
\* None and <<x>> for Some(x)), failed: the task failed
Call(op, who, ret, failed) ==
    [op |-> op, who |-> who, ret |-> ret, failed |-> failed]

Init ==
    /\ bv = Bitv_new(0, FALSE)
    /\ sets = [i \in {1, 2} |-> BitvSet_new]
    /\ last = Call("none", 0, FALSE, FALSE)
    /\ visited = <<>>
    /\ it = NoBits
    /\ yielded = NothingYielded
    /\ stop_on = NeverStops
    /\ v1 = Bitv_new(0, FALSE)
    /\ port = PortReader_new

\* a failed assertion or bounds check ends the task: nothing runs after it
Running == ~last.failed

\* a Bits iterator borrows the Bitv it iterates: while the caller holds one,
\* no &mut self method of that Bitv can be called
NotBorrowed == ~it.live

---------------------------------------------------------------------------
(* A caller of Bitv *)

DoBitvNew(n, init) ==
    /\ Running
    /\ NotBorrowed
    /\ bv' = Bitv_new(n, init)
    /\ last' = Call("Bitv::new", 0, FALSE, FALSE)
    /\ UNCHANGED <<sets, visited, it, yielded, stop_on, v1, port>>

DoSet(i, x) ==
    /\ Running
    /\ NotBorrowed
    /\ IF index_fails(bv, i)
         THEN /\ last' = Call("set", 0, FALSE, TRUE)
              /\ UNCHANGED bv
         ELSE /\ bv' = set(bv, i, x)
              /\ last' = Call("set", 0, FALSE, FALSE)
    /\ UNCHANGED <<sets, visited, it, yielded, stop_on, v1, port>>

DoClear ==
    /\ Running
    /\ NotBorrowed
    /\ bv' = clear(bv)
    /\ last' = Call("clear", 0, FALSE, FALSE)
    /\ UNCHANGED <<sets, visited, it, yielded, stop_on, v1, port>>

DoSetAll ==
    /\ Running
    /\ NotBorrowed
    /\ bv' = set_all(bv)
    /\ last' = Call("set_all", 0, FALSE, FALSE)
    /\ UNCHANGED <<sets, visited, it, yielded, stop_on, v1, port>>

DoNegate ==
    /\ Running
    /\ NotBorrowed
    /\ bv' = negate(bv)
    /\ last' = Call("negate", 0, FALSE, FALSE)
    /\ UNCHANGED <<sets, visited, it, yielded, stop_on, v1, port>>

DoAll ==
    /\ Running
    /\ last' = Call("all", 0, all(bv), FALSE)
    /\ UNCHANGED <<bv, sets, visited, it, yielded, stop_on, v1, port>>

NextBitv ==
    \/ \E n \in 0..MaxBits, init \in BOOLEAN : DoBitvNew(n, init)
    \/ \E i \in 0..MaxBits, x \in BOOLEAN : DoSet(i, x)
    \/ DoClear
    \/ DoSetAll
    \/ DoNegate
    \/ DoAll

SpecBitv == Init /\ [][NextBitv]_vars

---------------------------------------------------------------------------
(* A caller of Bitv that asks whether no bit, or any bit, is set           *)

DoNone ==
    /\ Running
    /\ last' = Call("Bitv::none", 0, none(bv), FALSE)
    /\ UNCHANGED <<bv, sets, visited, it, yielded, stop_on, v1, port>>

DoAny ==
    /\ Running
    /\ last' = Call("Bitv::any", 0, any(bv), FALSE)
    /\ UNCHANGED <<bv, sets, visited, it, yielded, stop_on, v1, port>>

NextNone ==
    \/ \E n \in 0..MaxBits, init \in BOOLEAN : DoBitvNew(n, init)
    \/ \E i \in 0..MaxBits, x \in BOOLEAN : DoSet(i, x)
    \/ DoClear
    \/ DoSetAll
    \/ DoNegate
    \/ DoNone
    \/ DoAny

SpecNone == Init /\ [][NextNone]_vars

---------------------------------------------------------------------------
(* A caller of two Bitvs: it builds bv and v1, reads bits of bv, combines  *)
(* bv with v1 and compares them                                            *)

DoV1New(n, init) ==
    /\ Running
    /\ v1' = Bitv_new(n, init)
    /\ last' = Call("v1 = Bitv::new", 0, FALSE, FALSE)
    /\ UNCHANGED <<bv, sets, visited, it, yielded, stop_on, port>>

\* the caller sets the bits v1 has
DoV1Set(i, x) ==
    /\ Running
    /\ ~index_fails(v1, i)
    /\ v1' = set(v1, i, x)
    /\ last' = Call("v1.set", 0, FALSE, FALSE)
    /\ UNCHANGED <<bv, sets, visited, it, yielded, stop_on, port>>

DoGet(i) ==
    /\ Running
    /\ IF index_fails(bv, i)
         THEN last' = Call("get", 0, FALSE, TRUE)
         ELSE last' = Call("get", 0, get(bv, i), FALSE)
    /\ UNCHANGED <<bv, sets, visited, it, yielded, stop_on, v1, port>>

DoBitvUnion ==
    /\ Running
    /\ NotBorrowed
    /\ IF process_fails(bv, v1)
         THEN /\ last' = Call("Bitv::union", 0, FALSE, TRUE)
              /\ UNCHANGED bv
         ELSE LET r == Bitv_union(bv, v1)
              IN  /\ bv' = r.bitv
                  /\ last' = Call("Bitv::union", 0, r.changed, FALSE)
    /\ UNCHANGED <<sets, visited, it, yielded, stop_on, v1, port>>

DoBitvIntersect ==
    /\ Running
    /\ NotBorrowed
    /\ IF process_fails(bv, v1)
         THEN /\ last' = Call("Bitv::intersect", 0, FALSE, TRUE)
              /\ UNCHANGED bv
         ELSE LET r == Bitv_intersect(bv, v1)
              IN  /\ bv' = r.bitv
                  /\ last' = Call("Bitv::intersect", 0, r.changed, FALSE)
    /\ UNCHANGED <<sets, visited, it, yielded, stop_on, v1, port>>

DoBitvAssign ==
    /\ Running
    /\ NotBorrowed
    /\ IF process_fails(bv, v1)
         THEN /\ last' = Call("Bitv::assign", 0, FALSE, TRUE)
              /\ UNCHANGED bv
         ELSE LET r == Bitv_assign(bv, v1)
              IN  /\ bv' = r.bitv
                  /\ last' = Call("Bitv::assign", 0, r.changed, FALSE)
    /\ UNCHANGED <<sets, visited, it, yielded, stop_on, v1, port>>

DoBitvDifference ==
    /\ Running
    /\ NotBorrowed
    /\ IF process_fails(bv, v1)
         THEN /\ last' = Call("Bitv::difference", 0, FALSE, TRUE)
              /\ UNCHANGED bv
         ELSE LET r == Bitv_difference(bv, v1)
              IN  /\ bv' = r.bitv
                  /\ last' = Call("Bitv::difference", 0, r.changed, FALSE)
    /\ UNCHANGED <<sets, visited, it, yielded, stop_on, v1, port>>

DoEq ==
    /\ Running
    /\ last' = Call("eq", 0, eq(bv, v1), FALSE)
    /\ UNCHANGED <<bv, sets, visited, it, yielded, stop_on, v1, port>>

NextBitvOps ==
    \/ \E n \in 0..MaxBits, init \in BOOLEAN : DoBitvNew(n, init)
    \/ \E i \in 0..MaxBits, x \in BOOLEAN : DoSet(i, x)
    \/ \E n \in 0..MaxBits, init \in BOOLEAN : DoV1New(n, init)
    \/ \E i \in 0..MaxBits, x \in BOOLEAN : DoV1Set(i, x)
    \/ \E i \in 0..MaxBits : DoGet(i)
    \/ DoBitvUnion
    \/ DoBitvIntersect
    \/ DoBitvAssign
    \/ DoBitvDifference
    \/ DoEq

SpecBitvOps == Init /\ [][NextBitvOps]_vars

---------------------------------------------------------------------------
(* A caller that builds bv and then iterates over it from both ends        *)

DoIter ==
    /\ Running
    /\ it' = Bitv_iter(bv)
    /\ yielded' = NothingYielded
    /\ last' = Call("iter", 0, FALSE, FALSE)
    /\ UNCHANGED <<bv, sets, visited, stop_on, v1, port>>

DoNext ==
    /\ Running
    /\ it.live
    /\ LET r == Bits_next(bv, it)
       IN  /\ it' = r.bits
           /\ yielded' = [yielded EXCEPT !.front = @ \o r.ret]
           /\ last' = Call("next", 0, r.ret, FALSE)
    /\ UNCHANGED <<bv, sets, visited, stop_on, v1, port>>

DoNextBack ==
    /\ Running
    /\ it.live
    /\ LET r == Bits_next_back(bv, it)
       IN  /\ it' = r.bits
           /\ yielded' = [yielded EXCEPT !.back = @ \o r.ret]
           /\ last' = Call("next_back", 0, r.ret, FALSE)
    /\ UNCHANGED <<bv, sets, visited, stop_on, v1, port>>

DoIdx(index) ==
    /\ Running
    /\ it.live
    /\ last' = Call("idx", 0, Bits_idx(bv, it, index), FALSE)
    /\ UNCHANGED <<bv, sets, visited, it, yielded, stop_on, v1, port>>

NextBits ==
    \/ \E n \in 0..MaxBits, init \in BOOLEAN : DoBitvNew(n, init)
    \/ \E i \in 0..MaxBits, x \in BOOLEAN : DoSet(i, x)
    \/ DoIter
    \/ DoNext
    \/ DoNextBack
    \/ \E index \in 0..MaxBits : DoIdx(index)

SpecBits == Init /\ [][NextBits]_vars

---------------------------------------------------------------------------
(* A caller that builds a Bitv of up to MaxLen bits and packs it in bytes  *)

DoToBytes ==
    /\ Running
    /\ last' = Call("to_bytes", 0, to_bytes(bv), FALSE)
    /\ UNCHANGED <<bv, sets, visited, it, yielded, stop_on, v1, port>>

NextBytes ==
    \/ \E n \in 0..MaxLen, init \in BOOLEAN : DoBitvNew(n, init)
    \/ \E i \in 0..MaxLen, x \in BOOLEAN : DoSet(i, x)
    \/ DoSetAll
    \/ DoNegate
    \/ DoToBytes

SpecBytes == Init /\ [][NextBytes]_vars

---------------------------------------------------------------------------
(* A caller that packs a Bitv in bytes and unpacks bytes into a Bitv: the  *)
(* bytes to_bytes has just returned, or bytes of its own                   *)

\* the byte vectors the caller has of its own: none, every single byte, and
\* pairs of bytes with the high, the low, all or none of their bits set
ByteSeqs ==
    {<<>>} \cup {<<b>> : b \in 0..255}
           \cup {<<b, c>> : b \in {0, 1, 128, 255}, c \in {0, 1, 128, 255}}

DoFromBytes(bytes) ==
    /\ Running
    /\ NotBorrowed
    /\ bv' = from_bytes(bytes)
    /\ last' = Call("from_bytes", 0, FALSE, FALSE)
    /\ UNCHANGED <<sets, visited, it, yielded, stop_on, v1, port>>

\* from_bytes(v.to_bytes().as_slice())
DoFromBytesReturned ==
    /\ Running
    /\ NotBorrowed
    /\ last.op = "to_bytes"
    /\ bv' = from_bytes(last.ret)
    /\ last' = Call("from_bytes(to_bytes)", 0, FALSE, FALSE)
    /\ UNCHANGED <<sets, visited, it, yielded, stop_on, v1, port>>

\* from_bytes is a free function that reads nothing of the state: calling
\* it on the caller's own bytes from the state after construction reaches
\* every state that calling it from any other state reaches
Constructed == last.op = "none"

NextRoundTrip ==
    \/ \E n \in 0..MaxLen, init \in BOOLEAN : DoBitvNew(n, init)
    \/ \E i \in 0..MaxLen, x \in BOOLEAN : DoSet(i, x)
    \/ DoNegate
    \/ DoToBytes
    \/ DoFromBytesReturned
    \/ \E bytes \in ByteSeqs : Constructed /\ DoFromBytes(bytes)

SpecRoundTrip == Init /\ [][NextRoundTrip]_vars

---------------------------------------------------------------------------
(* A caller of BitvSet: two sets, each the receiver of every public        *)
(* operation, and each the argument of the other's in-place combinators    *)

Other(i) == 3 - i

DoNew(i) ==
    /\ Running
    /\ sets' = [sets EXCEPT ![i] = BitvSet_new]
    /\ last' = Call("new", i, FALSE, FALSE)
    /\ UNCHANGED <<bv, visited, it, yielded, stop_on, v1, port>>

DoFromBitv(i, n, init) ==
    /\ Running
    /\ sets' = [sets EXCEPT ![i] = from_bitv(Bitv_new(n, init))]
    /\ last' = Call("from_bitv", i, FALSE, FALSE)
    /\ UNCHANGED <<bv, visited, it, yielded, stop_on, v1, port>>

\* insert is called only while the grown storage stays within MaxWords words
DoInsert(i, v) ==
    /\ Running
    /\ IF contains_fails(sets[i], v)
         THEN /\ last' = Call("insert", i, FALSE, TRUE)
              /\ UNCHANGED sets
         ELSE LET r == insert(sets[i], v)
              IN  /\ Len(r.set.storage) <= MaxWords
                  /\ sets' = [sets EXCEPT ![i] = r.set]
                  /\ last' = Call("insert", i, r.ret, FALSE)
    /\ UNCHANGED <<bv, visited, it, yielded, stop_on, v1, port>>

DoRemove(i, v) ==
    /\ Running
    /\ IF contains_fails(sets[i], v)
         THEN /\ last' = Call("remove", i, FALSE, TRUE)
              /\ UNCHANGED sets
         ELSE LET r == remove(sets[i], v)
              IN  /\ sets' = [sets EXCEPT ![i] = r.set]
                  /\ last' = Call("remove", i, r.ret, FALSE)
    /\ UNCHANGED <<bv, visited, it, yielded, stop_on, v1, port>>

DoSetClear(i) ==
    /\ Running
    /\ sets' = [sets EXCEPT ![i] = BitvSet_clear(sets[i])]
    /\ last' = Call("BitvSet::clear", i, FALSE, FALSE)
    /\ UNCHANGED <<bv, visited, it, yielded, stop_on, v1, port>>

DoShrinkToFit(i) ==
    /\ Running
    /\ sets' = [sets EXCEPT ![i] = shrink_to_fit(sets[i])]
    /\ last' = Call("shrink_to_fit", i, FALSE, FALSE)
    /\ UNCHANGED <<bv, visited, it, yielded, stop_on, v1, port>>

DoUnionWith(i) ==
    /\ Running
    /\ sets' = [sets EXCEPT ![i] = union_with(sets[i], sets[Other(i)])]
    /\ last' = Call("union_with", i, FALSE, FALSE)
    /\ UNCHANGED <<bv, visited, it, yielded, stop_on, v1, port>>

DoIntersectWith(i) ==
    /\ Running
    /\ sets' = [sets EXCEPT ![i] = intersect_with(sets[i], sets[Other(i)])]
    /\ last' = Call("intersect_with", i, FALSE, FALSE)
    /\ UNCHANGED <<bv, visited, it, yielded, stop_on, v1, port>>

DoDifferenceWith(i) ==
    /\ Running
    /\ sets' = [sets EXCEPT ![i] = difference_with(sets[i], sets[Other(i)])]
    /\ last' = Call("difference_with", i, FALSE, FALSE)
    /\ UNCHANGED <<bv, visited, it, yielded, stop_on, v1, port>>

DoSymmetricDifferenceWith(i) ==
    /\ Running
    /\ sets' = [sets EXCEPT ![i] = symmetric_difference_with(sets[i], sets[Other(i)])]
    /\ last' = Call("symmetric_difference_with", i, FALSE, FALSE)
    /\ UNCHANGED <<bv, visited, it, yielded, stop_on, v1, port>>

Next ==
    \/ \E i \in {1, 2} : DoNew(i)
    \/ \E i \in {1, 2}, n \in 0..MaxBits, init \in BOOLEAN : DoFromBitv(i, n, init)
    \/ \E i \in {1, 2}, v \in Values : DoInsert(i, v)
    \/ \E i \in {1, 2}, v \in Values : DoRemove(i, v)
    \/ \E i \in {1, 2} : DoSetClear(i)
    \/ \E i \in {1, 2} : DoShrinkToFit(i)
    \/ \E i \in {1, 2} : DoUnionWith(i)
    \/ \E i \in {1, 2} : DoIntersectWith(i)
    \/ \E i \in {1, 2} : DoDifferenceWith(i)
    \/ \E i \in {1, 2} : DoSymmetricDifferenceWith(i)

Spec == Init /\ [][Next]_vars

---------------------------------------------------------------------------
(* The caller of BitvSet, which also iterates over its sets                *)

DoSetIter(i) ==
    /\ Running
    /\ last' = Call("BitvSet::iter", i, BitvSet_iter(sets[i]), FALSE)
    /\ UNCHANGED <<bv, sets, visited, it, yielded, stop_on, v1, port>>

NextIter ==
    \/ \E i \in {1, 2} : DoNew(i)
    \/ \E i \in {1, 2}, n \in 0..MaxBits, init \in BOOLEAN : DoFromBitv(i, n, init)
    \/ \E i \in {1, 2}, v \in Values : DoInsert(i, v)
    \/ \E i \in {1, 2}, v \in Values : DoRemove(i, v)
    \/ \E i \in {1, 2} : DoSetClear(i)
    \/ \E i \in {1, 2} : DoShrinkToFit(i)
    \/ \E i \in {1, 2} : DoUnionWith(i)
    \/ \E i \in {1, 2} : DoIntersectWith(i)
    \/ \E i \in {1, 2} : DoDifferenceWith(i)
    \/ \E i \in {1, 2} : DoSymmetricDifferenceWith(i)
    \/ \E i \in {1, 2} : DoSetIter(i)

SpecIter == Init /\ [][NextIter]_vars

---------------------------------------------------------------------------
(* A caller that builds two sets from the empty set by insert and remove   *)
(* and enumerates their union, intersection, difference and symmetric      *)
(* difference with a visitor                                               *)

DoUnion(i, stops) ==
    /\ Running
    /\ LET r == union(sets[i], sets[Other(i)], stops)
       IN  /\ visited' = r.seen
           /\ last' = Call("union", i, r.ret, FALSE)
    /\ stop_on' = stops
    /\ UNCHANGED <<bv, sets, it, yielded, v1, port>>

DoIntersection(i, stops) ==
    /\ Running
    /\ LET r == intersection(sets[i], sets[Other(i)], stops)
       IN  /\ visited' = r.seen
           /\ last' = Call("intersection", i, r.ret, FALSE)
    /\ stop_on' = stops
    /\ UNCHANGED <<bv, sets, it, yielded, v1, port>>

DoDifference(i, stops) ==
    /\ Running
    /\ LET r == difference(sets[i], sets[Other(i)], stops)
       IN  /\ visited' = r.seen
           /\ last' = Call("difference", i, r.ret, FALSE)
    /\ stop_on' = stops
    /\ UNCHANGED <<bv, sets, it, yielded, v1, port>>

DoSymmetricDifference(i, stops) ==
    /\ Running
    /\ LET r == symmetric_difference(sets[i], sets[Other(i)], stops)
       IN  /\ visited' = r.seen
           /\ last' = Call("symmetric_difference", i, r.ret, FALSE)
    /\ stop_on' = stops
    /\ UNCHANGED <<bv, sets, it, yielded, v1, port>>

NextEnum ==
    \/ \E i \in {1, 2}, v \in Values : DoInsert(i, v)
    \/ \E i \in {1, 2}, v \in Values : DoRemove(i, v)
    \/ \E i \in {1, 2}, stops \in {NeverStops} : DoUnion(i, stops)
    \/ \E i \in {1, 2}, stops \in {NeverStops} : DoIntersection(i, stops)
    \/ \E i \in {1, 2}, stops \in {NeverStops} : DoDifference(i, stops)
    \/ \E i \in {1, 2}, stops \in {NeverStops} : DoSymmetricDifference(i, stops)

SpecEnum == Init /\ [][NextEnum]_vars

---------------------------------------------------------------------------
(* A caller that builds two sets from the empty set by insert and remove   *)
(* and then enumerates sets[1] with sets[2], with a visitor that returns   *)
(* false on one value, or on none                                          *)

StopSets == {NeverStops} \cup {{v} : v \in Values}

\* the caller has not started to enumerate
Building == last.op \notin {"union", "intersection", "difference", "symmetric_difference"}

NextStop ==
    \/ \E i \in {1, 2}, v \in Values : Building /\ DoInsert(i, v)
    \/ \E i \in {1, 2}, v \in Values : Building /\ DoRemove(i, v)
    \/ \E stops \in StopSets : DoUnion(1, stops)
    \/ \E stops \in StopSets : DoIntersection(1, stops)
    \/ \E stops \in StopSets : DoDifference(1, stops)
    \/ \E stops \in StopSets : DoSymmetricDifference(1, stops)

SpecStop == Init /\ [][NextStop]_vars

---------------------------------------------------------------------------
(* A caller that builds two sets from the empty set by insert and remove   *)
(* and compares them                                                       *)

DoIsSubset(i) ==
    /\ Running
    /\ last' = Call("is_subset", i, is_subset(sets[i], sets[Other(i)]), FALSE)
    /\ UNCHANGED <<bv, sets, visited, it, yielded, stop_on, v1, port>>

DoIsSuperset(i) ==
    /\ Running
    /\ last' = Call("is_superset", i, is_superset(sets[i], sets[Other(i)]), FALSE)
    /\ UNCHANGED <<bv, sets, visited, it, yielded, stop_on, v1, port>>

DoIsDisjoint(i) ==
    /\ Running
    /\ last' = Call("is_disjoint", i, is_disjoint(sets[i], sets[Other(i)]), FALSE)
    /\ UNCHANGED <<bv, sets, visited, it, yielded, stop_on, v1, port>>

NextCmp ==
    \/ \E i \in {1, 2}, v \in Values : DoInsert(i, v)
    \/ \E i \in {1, 2}, v \in Values : DoRemove(i, v)
    \/ \E i \in {1, 2} : DoIsSubset(i)
    \/ \E i \in {1, 2} : DoIsSuperset(i)
    \/ \E i \in {1, 2} : DoIsDisjoint(i)

SpecCmp == Init /\ [][NextCmp]_vars

---------------------------------------------------------------------------
(* C1 *)

\* every bit below the length is 1
EveryBitSet(b) == \A i \in 0..(b.nbits - 1) : get(b, i)

\* C1: whenever all() has just returned, its result is true exactly when
\* every bit at an index below the length is 1.
C1_AllIffEveryBit ==
    last.op = "all" => (last.ret <=> EveryBitSet(bv))

---------------------------------------------------------------------------
(* C2 .. C9: the in-place operations of BitvSet *)

\* the members of a set, as contains reports them
Members(s) == {v \in Pos : contains(s, v)}

\* C2: after a.union_with(b), a contains v exactly when a did or b does, and
\* after a.symmetric_difference_with(b), exactly when one of them did.
C2_UnionXorWith ==
    [][\A i \in {1, 2} :
          /\ (last'.op = "union_with" /\ DoUnionWith(i)) =>
               \A v \in Pos : contains(sets'[i], v) <=>
                                (contains(sets[i], v) \/ contains(sets[Other(i)], v))
          /\ (last'.op = "symmetric_difference_with" /\ DoSymmetricDifferenceWith(i)) =>
               \A v \in Pos : contains(sets'[i], v) <=>
                                (contains(sets[i], v) # contains(sets[Other(i)], v))
      ]_vars

\* C3: after a.intersect_with(b), a contains v exactly when a did and b does.
C3_IntersectWith ==
    [][\A i \in {1, 2} :
          (last'.op = "intersect_with" /\ DoIntersectWith(i)) =>
             \A v \in Pos : contains(sets'[i], v) <=>
                              (contains(sets[i], v) /\ contains(sets[Other(i)], v))
      ]_vars

\* C4: after a.difference_with(b), a contains v exactly when a did and b does
\* not, and a's capacity is at least b's.
C4_DifferenceWith ==
    [][\A i \in {1, 2} :
          (last'.op = "difference_with" /\ DoDifferenceWith(i)) =>
             /\ \A v \in Pos : contains(sets'[i], v) <=>
                                 (contains(sets[i], v) /\ ~contains(sets[Other(i)], v))
             /\ capacity(sets'[i]) >= capacity(sets[Other(i)])
      ]_vars

\* C5: insert(v) returns true exactly when v was not a member; afterwards v
\* is a member, and a second insert(v) returns false and changes nothing.
C5_Insert ==
    [][\A i \in {1, 2}, v \in Values :
          (last'.op = "insert" /\ DoInsert(i, v)) =>
             /\ ~last'.failed
             /\ last'.ret <=> ~contains(sets[i], v)
             /\ contains(sets'[i], v)
             /\ ~contains_fails(sets'[i], v)
             /\ insert(sets'[i], v) = [set |-> sets'[i], ret |-> FALSE]
      ]_vars

\* C6: insert(v) leaves the membership of every w # v as it was.
C6_InsertFrame ==
    [][\A i \in {1, 2}, v \in Values :
          (last'.op = "insert" /\ DoInsert(i, v)) =>
             \A w \in Pos \ {v} : contains(sets'[i], w) <=> contains(sets[i], w)
      ]_vars

\* C7: remove(v) returns true exactly when v was a member; afterwards v is
\* not a member, every w # v is as it was, and insert(v) returns true again.
C7_Remove ==
    [][\A i \in {1, 2}, v \in Values :
          (last'.op = "remove" /\ DoRemove(i, v)) =>
             /\ ~last'.failed
             /\ last'.ret <=> contains(sets[i], v)
             /\ ~contains(sets'[i], v)
             /\ \A w \in Pos \ {v} : contains(sets'[i], w) <=> contains(sets[i], w)
             /\ ~contains_fails(sets'[i], v)
             /\ insert(sets'[i], v).ret
      ]_vars

\* C8: after shrink_to_fit the capacity is a positive multiple of W.
C8_ShrinkKeepsAWord ==
    last.op = "shrink_to_fit" =>
        /\ capacity(sets[last.who]) > 0
        /\ capacity(sets[last.who]) % W = 0

\* C9: shrink_to_fit never removes a member.
C9_ShrinkKeepsMembers ==
    [][\A i \in {1, 2} :
          (last'.op = "shrink_to_fit" /\ DoShrinkToFit(i)) =>
             \A v \in Pos : contains(sets[i], v) => contains(sets'[i], v)
      ]_vars

\* shrink_to_fit has just run on a set that has a member
C9_Witness ==
    /\ last.op = "shrink_to_fit"
    /\ Members(sets[last.who]) # {}

---------------------------------------------------------------------------
(* C10: the enumerations *)

RECURSIVE Ascending(_)
\* the elements of a finite set of numbers, in ascending order
Ascending(S) ==
    IF S = {} THEN <<>>
    ELSE LET m == CHOOSE x \in S : \A y \in S : x <= y
         IN  <<m>> \o Ascending(S \ {m})

\* the set-theoretic result of an enumeration of A with B
SetResult(op, A, B) ==
    CASE op = "union"                -> A \cup B
      [] op = "intersection"         -> A \cap B
      [] op = "difference"           -> A \ B
      [] op = "symmetric_difference" -> (A \ B) \cup (B \ A)

Enumerations == {"union", "intersection", "difference", "symmetric_difference"}

\* C10: an enumeration that ran to its end (no visitor call returned false)
\* called the visitor once for each member of the set-theoretic result, for
\* nothing else, in ascending order.
C10_EnumerationVisitsResult ==
    (last.op \in Enumerations /\ last.ret) =>
        visited = Ascending(SetResult(last.op, Members(sets[last.who]),
                                      Members(sets[Other(last.who)])))

\* a symmetric difference has run to its end on a receiver of smaller
\* capacity than its argument and visited values of two different words
C10_Witness ==
    /\ last.op = "symmetric_difference"
    /\ last.ret
    /\ capacity(sets[last.who]) < capacity(sets[Other(last.who)])
    /\ Len(visited) >= 2
    /\ visited[1] < W
    /\ visited[Len(visited)] >= W

---------------------------------------------------------------------------
(* C11: the visitor that stops *)

\* the part of the sequence s up to its first element in stops, that element
\* included; all of s when it has none
UpToFirstStop(s, stops) ==
    IF \E k \in 1..Len(s) : s[k] \in stops
      THEN SubSeq(s, 1, CHOOSE k \in 1..Len(s) :
                           /\ s[k] \in stops
                           /\ \A j \in 1..(k - 1) : s[j] \notin stops)
      ELSE s

\* C11: an enumeration has called the visitor on the members of the result
\* in ascending order up to the first call that returned false, never after
\* it, and has then returned false; when no call returned false it has
\* visited every member of the result and returned true.
C11_StopsAtFirstFalse ==
    last.op \in Enumerations =>
        LET full == Ascending(SetResult(last.op, Members(sets[last.who]),
                                        Members(sets[Other(last.who)])))
        IN  /\ visited = UpToFirstStop(full, stop_on)
            /\ last.ret <=> \A k \in 1..Len(full) : full[k] \notin stop_on

\* a union has stopped at a value of the first word, with a member of the
\* second word left unvisited
C11_Witness ==
    /\ last.op = "union"
    /\ ~last.ret
    /\ Len(visited) >= 1
    /\ visited[Len(visited)] < W
    /\ \E v \in Values :
          /\ v >= W
          /\ v \in Members(sets[1]) \cup Members(sets[2])

---------------------------------------------------------------------------
(* C12: the comparisons *)

\* C12: for sets built by insert and remove, a.is_subset(b) is true exactly
\* when every member of a is a member of b, a.is_superset(b) is
\* b.is_subset(a), true exactly when every member of b is a member of a, and
\* a.is_disjoint(b) is true exactly when no value is a member of both.
C12_Comparisons ==
    LET a == sets[last.who]
        b == sets[Other(last.who)]
    IN  /\ last.op = "is_subset" =>
              (last.ret <=> Members(a) \subseteq Members(b))
        /\ last.op = "is_superset" =>
              /\ last.ret <=> is_subset(b, a)
              /\ last.ret <=> Members(b) \subseteq Members(a)
        /\ last.op = "is_disjoint" =>
              (last.ret <=> Members(a) \cap Members(b) = {})

\* is_subset has returned false for a receiver of larger capacity whose
\* members below the argument's capacity are all members of the argument
C12_Witness ==
    /\ last.op = "is_subset"
    /\ ~last.ret
    /\ capacity(sets[last.who]) > capacity(sets[Other(last.who)])
    /\ \A v \in Members(sets[last.who]) :
          v < capacity(sets[Other(last.who)]) => v \in Members(sets[Other(last.who)])

---------------------------------------------------------------------------
(* C13: the cardinality *)

\* C13: in every state, len() of each set is the number of values the set
\* contains.
C13_LenCountsMembers ==
    \A i \in {1, 2} : len(sets[i]) = Cardinality(Members(sets[i]))

---------------------------------------------------------------------------
(* C14 .. C17: the whole-vector operations of Bitv *)

BitvOps == {"Bitv::union", "Bitv::intersect", "Bitv::difference", "Bitv::assign"}

\* C14: union, intersect, difference and assign return true exactly when a
\* bit of self at an index below its length has changed.
C14_ChangedIffABitChanged ==
    [][(last'.op \in BitvOps /\ ~last'.failed) =>
          (last'.ret <=> \E i \in 0..(bv.nbits - 1) : get(bv', i) # get(bv, i))
      ]_vars

\* the bit the operation is to leave at an index where self held a and the
\* argument holds b
BitResult(op, a, b) ==
    CASE op = "Bitv::union"      -> a \/ b
      [] op = "Bitv::intersect"  -> a /\ b
      [] op = "Bitv::difference" -> a /\ ~b
      [] op = "Bitv::assign"     -> b

\* C15: when self and the argument have the same length n, union, intersect,
\* difference and assign leave at every index i < n of self the OR, the AND,
\* the AND-NOT of the two bits at i, and the argument's bit at i, whatever
\* is stored beyond n; the argument and the length of self stay as they were.
C15_BitwiseResult ==
    [][(last'.op \in BitvOps /\ ~last'.failed /\ bv.nbits = v1.nbits) =>
          /\ \A i \in 0..(bv.nbits - 1) :
                get(bv', i) <=> BitResult(last'.op, get(bv, i), get(v1, i))
          /\ bv'.nbits = bv.nbits
          /\ v1' = v1
      ]_vars

\* a difference of two Bitvs of the same length, two words long, has changed
\* a bit of the second word of self, the argument holding a 1 beyond its
\* length
C15_Witness ==
    /\ last.op = "Bitv::difference"
    /\ ~last.failed
    /\ last.ret
    /\ bv.nbits = v1.nbits
    /\ bv.nbits = W + 1
    /\ ~get(bv, W)
    /\ get(v1, W)
    /\ v1.storage[2] > 1

\* C16: get(i) and set(i, x) fail exactly when i is not below the length,
\* union, intersect, difference and assign fail exactly when the two
\* storages differ in their number of words, and a call that fails leaves
\* the words and the length of self as they were.  BitvSet::contains calls
\* get with an index below the length alone, so that no insert and no remove
\* fails.
C16_FailsBeforeMutation ==
    [][/\ \A i \in 0..MaxBits :
            (last'.op = "get" /\ DoGet(i)) =>
                /\ last'.failed <=> i >= bv.nbits
                /\ bv' = bv
       /\ \A i \in 0..MaxBits, x \in BOOLEAN :
            (last'.op = "set" /\ DoSet(i, x)) =>
                /\ last'.failed <=> i >= bv.nbits
                /\ last'.failed => bv' = bv
       /\ last'.op \in BitvOps =>
                /\ last'.failed <=> Len(bv.storage) # Len(v1.storage)
                /\ last'.failed => bv' = bv
       /\ last'.op \in {"insert", "remove"} => ~last'.failed
      ]_vars

\* C17: a == b exactly when the two have the same length and the same bit at
\* every index below it, whatever is stored beyond the length.
C17_EqualIffSameBits ==
    last.op = "eq" =>
        (last.ret <=> /\ bv.nbits = v1.nbits
                      /\ \A i \in 0..(bv.nbits - 1) : get(bv, i) <=> get(v1, i))

\* two Bitvs whose stored words differ have compared equal
C17_Witness ==
    /\ last.op = "eq"
    /\ last.ret
    /\ bv.storage # v1.storage

---------------------------------------------------------------------------
(* C18, C19: the iterator *)

\* the bits the iterator has still to yield
Remaining == bv.nbits - Len(yielded.front) - Len(yielded.back)

\* C18: over a Bitv of length n, the k-th next() that yields a bit yields
\* the bit at index k - 1 and the k-th next_back() that yields a bit yields
\* the bit at index n - k; while fewer than n bits have been yielded in
\* total each call yields a bit, and from then on both return None.
C18_BothEndsOnce ==
    [][/\ (last'.op = "next" /\ DoNext) =>
            /\ last'.ret = IF Remaining > 0
                             THEN <<get(bv, Len(yielded.front))>>
                             ELSE <<>>
            /\ yielded' = [yielded EXCEPT !.front = @ \o last'.ret]
       /\ (last'.op = "next_back" /\ DoNextBack) =>
            /\ last'.ret = IF Remaining > 0
                             THEN <<get(bv, bv.nbits - 1 - Len(yielded.back))>>
                             ELSE <<>>
            /\ yielded' = [yielded EXCEPT !.back = @ \o last'.ret]
      ]_vars

\* both ends have yielded bits, every bit has been yielded, and next() has
\* returned None
C18_Witness ==
    /\ last.op = "next"
    /\ last.ret = <<>>
    /\ Len(yielded.front) >= 1
    /\ Len(yielded.back) >= 2
    /\ Len(yielded.front) + Len(yielded.back) = bv.nbits

\* C19: idx(k) returns the bit at index (front cursor + k) when k is less
\* than the number of bits still to yield, and None otherwise.
C19_IdxIntoRemaining ==
    [][\A k \in 0..MaxBits :
          (last'.op = "idx" /\ DoIdx(k)) =>
              last'.ret = IF k < Remaining
                            THEN <<get(bv, Len(yielded.front) + k)>>
                            ELSE <<>>
      ]_vars

---------------------------------------------------------------------------
(* C20: to_bytes *)

\* C20: to_bytes returns ceil(length / 8) bytes; bit (7 - i mod 8) of byte
\* (i div 8) is bit i of the Bitv for every i below the length, and 0 for
\* every i from the length on, whatever the words store beyond the length.
C20_ToBytes ==
    last.op = "to_bytes" =>
        LET bytes == last.ret
        IN  /\ Len(bytes) = (bv.nbits + 7) \div 8
            /\ \A k \in 1..Len(bytes) : bytes[k] < 256
            /\ \A i \in 0..(8 * Len(bytes) - 1) :
                  BitOf(bytes[i \div 8 + 1], 7 - (i % 8)) =
                      IF i < bv.nbits /\ get(bv, i) THEN 1 ELSE 0

\* a Bitv of a byte and a bit, its last word storing a 1 beyond the length,
\* has been packed in two bytes, the second with its high-order bit alone
C20_Witness ==
    /\ last.op = "to_bytes"
    /\ bv.nbits = 9
    /\ bv.storage[5] = AllOnes
    /\ last.ret[1] > 0
    /\ last.ret[2] = 128

---------------------------------------------------------------------------
(* C21: the round trips *)

\* C21: from_bytes(to_bytes(v)) has 8 * ceil(length / 8) bits, the bits of v
\* below the length of v and 0 from there on; to_bytes(from_bytes(bs)) is bs.
C21_RoundTrip ==
    [][/\ (last'.op = "from_bytes(to_bytes)" /\ DoFromBytesReturned) =>
            /\ bv'.nbits = 8 * ((bv.nbits + 7) \div 8)
            /\ \A i \in 0..(bv'.nbits - 1) :
                  get(bv', i) <=> (i < bv.nbits /\ get(bv, i))
       /\ last'.op = "from_bytes" =>
            \A bs \in ByteSeqs :
                DoFromBytes(bs) =>
                    /\ bv'.nbits = 8 * Len(bs)
                    /\ to_bytes(bv') = bs
      ]_vars

\* a Bitv of a byte and a bit, with a 1 at its last index and a 1 stored
\* beyond its length, has come back from its bytes two bytes long
C21_Witness ==
    /\ last.op = "from_bytes(to_bytes)"
    /\ bv.nbits = 16
    /\ get(bv, 8)
    /\ \E i \in 0..7 : get(bv, i)
    /\ \E i \in 0..7 : ~get(bv, i)

---------------------------------------------------------------------------
(* C22: none and any *)

\* no bit below the length is 1
NoBitSet(b) == \A i \in 0..(b.nbits - 1) : ~get(b, i)

\* C22: none() is true exactly when no bit below the length is 1, whatever
\* the words store beyond the length; any() is the negation of none(); and
\* none() is true of Bitv::new(n, false) for every n.
C22_NoneIffNoBit ==
    /\ last.op = "Bitv::none" => (last.ret <=> NoBitSet(bv))
    /\ last.op = "Bitv::any" => /\ last.ret <=> ~none(bv)
                                /\ last.ret <=> ~NoBitSet(bv)
    /\ \A n \in 0..MaxBits : none(Bitv_new(n, FALSE))

\* none() has returned true of a Bitv that stores a 1 beyond its length
C22_Witness ==
    /\ last.op = "Bitv::none"
    /\ last.ret
    /\ bv.nbits > 0
    /\ bv.storage[Len(bv.storage)] # 0

---------------------------------------------------------------------------
(* C23: the iterator of a set *)

\* C23: iter() yields the values the set contains, each once, in ascending
\* order, and then ends.
C23_IterYieldsMembers ==
    last.op = "BitvSet::iter" =>
        /\ last.ret = Ascending(Members(sets[last.who]))
        /\ BitPositions_next(sets[last.who], capacity(sets[last.who])).ret = <<>>

\* the iteration of a set that stores a bit at or above nbits has yielded
\* members of two words
C23_Witness ==
    /\ last.op = "BitvSet::iter"
    /\ Len(last.ret) >= 2
    /\ last.ret[1] < W
    /\ last.ret[Len(last.ret)] >= W
    /\ len(sets[last.who]) > Len(last.ret)

---------------------------------------------------------------------------
(* C24: the capacity *)

\* the operations that are never to decrease the capacity
Growing == {"insert", "remove", "BitvSet::clear", "union_with", "intersect_with",
            "difference_with", "symmetric_difference_with"}

\* ceil(a / b)
CeilDiv(a, b) == (a + b - 1) \div b

\* C24: insert(v) of a value that is not a member and not below the
\* capacity leaves the capacity W * ceil(max(v + 1, 2 * capacity) / W);
\* insert(v) of a value below the capacity leaves the capacity as it was;
\* insert, remove, clear and the in-place combinators never decrease the
\* capacity; insert and remove leave every word as it was but the word of v
\* and, when insert raises the length, the last word of the old length.
C24_Capacity ==
    [][/\ last'.op = "insert" =>
            \A i \in {1, 2}, v \in Values :
                DoInsert(i, v) =>
                    LET cap == capacity(sets[i])
                        old_last_word == CeilDiv(sets[i].nbits, W) - 1
                    IN  /\ (~contains(sets[i], v) /\ v >= cap) =>
                              capacity(sets'[i]) = W * CeilDiv(Max(v + 1, 2 * cap), W)
                        /\ v < cap => capacity(sets'[i]) = cap
                        /\ \A k \in 1..Len(sets[i].storage) :
                              (k # v \div W + 1 /\ k # old_last_word + 1) =>
                                  sets'[i].storage[k] = sets[i].storage[k]
       /\ last'.op = "remove" =>
            \A i \in {1, 2}, v \in Values :
                DoRemove(i, v) =>
                    \A k \in 1..Len(sets[i].storage) :
                        k # v \div W + 1 => sets'[i].storage[k] = sets[i].storage[k]
       /\ last'.op \in Growing =>
            \A i \in {1, 2} : capacity(sets'[i]) >= capacity(sets[i])
      ]_vars

---------------------------------------------------------------------------
(* C25: the number of stored words *)

\* the storage of b has as many words as its length needs
WordsForLength(b) == Len(b.storage) = CeilDiv(b.nbits, W)

\* C25: every Bitv, the backing vector of a BitvSet included, stores
\* ceil(length / W) words.
C25_WordsForLength ==
    /\ WordsForLength(bv)
    /\ WordsForLength(v1)
    /\ \A i \in {1, 2} : WordsForLength(sets[i])

\* the part of C25 about a Bitv changed by Bitv's own operations
C25_BitvAlone == WordsForLength(bv) /\ WordsForLength(v1)

---------------------------------------------------------------------------
(* A sender on the channel and a caller of PortReader::read *)

\* chan.send(msg) of the next size bytes
DoSend(size) ==
    /\ ~port.hung_up
    /\ Len(port.sent) < MaxMsgs
    /\ LET msg == [j \in 1..size |-> Len(Flatten(port.sent)) + j]
       IN  port' = [port EXCEPT !.chan = Append(@, msg), !.sent = Append(@, msg)]
    /\ UNCHANGED <<bv, sets, last, visited, it, yielded, stop_on, v1>>

\* the sending task ends: chan is dropped
DoHangUp ==
    /\ ~port.hung_up
    /\ port' = [port EXCEPT !.hung_up = TRUE]
    /\ UNCHANGED <<bv, sets, last, visited, it, yielded, stop_on, v1>>

\* the outcome of a read call, once it has left its loop
Returned(r, n) ==
    IF r.at_recv THEN Call("read: recv_opt", n, FALSE, FALSE)
                 ELSE Call("read", n, read_result(r), FALSE)

\* reader.read(buf) with a buffer of n bytes, up to its return or to the
\* first recv_opt
DoRead(n) ==
    /\ ~port.at_recv
    /\ LET r == read_loop([port EXCEPT
                     !.dst = [k \in 1..n |-> Untouched],
                     !.num_read = 0,
                     !.done_at_call = port.hung_up /\ port.got = Flatten(port.sent),
                     !.closed_at_call = port.closed])
       IN  /\ port' = r
           /\ last' = Returned(r, n)
    /\ UNCHANGED <<bv, sets, visited, it, yielded, stop_on, v1>>

\* recv_opt returns, with a message or with None after the hang-up, and read
\* goes on up to its return or to the next recv_opt
DoRecv ==
    /\ port.at_recv
    /\ port.chan # <<>> \/ port.hung_up
    /\ LET r == read_loop(read_recv(port))
       IN  /\ port' = r
           /\ last' = Returned(r, Len(port.dst))
    /\ UNCHANGED <<bv, sets, visited, it, yielded, stop_on, v1>>

NextPort ==
    \/ \E size \in 0..MaxMsgLen : DoSend(size)
    \/ DoHangUp
    \/ \E n \in 0..MaxRead : DoRead(n)
    \/ DoRecv

SpecPort == Init /\ [][NextPort]_vars

---------------------------------------------------------------------------
(* C26: PortReader delivers the stream sent, then end-of-file *)

\* the bytes handed to the caller so far, those of a read in progress included
Delivered ==
    IF port.at_recv THEN port.got \o SubSeq(port.dst, 1, port.num_read) ELSE port.got

\* the bytes received from the channel and not yet handed to the caller
Buffered ==
    IF port.buf = <<>> THEN <<>>
    ELSE SubSeq(port.buf[1], port.pos + 1, Len(port.buf[1]))

\* the bytes read has written are at the front of the buffer, the rest of
\* the buffer is as the caller left it
RestUntouched ==
    \A k \in 1..Len(port.dst) : k > port.num_read => port.dst[k] = Untouched

\* the parts of C26 the two readings of its last part share: the bytes
\* delivered, buffered and in flight are the bytes sent, in send order; a
\* read returns fewer bytes than its buffer holds only after the hang-up,
\* with every byte sent delivered; None is returned only then, and leaves the
\* buffer untouched
StreamThenEof ==
    /\ Delivered \o Buffered \o Flatten(port.chan) = Flatten(port.sent)
    /\ RestUntouched
    /\ last.op = "read" =>
          /\ (last.ret = <<>> \/ last.ret[1] < last.who) =>
                port.hung_up /\ port.closed /\ port.got = Flatten(port.sent)
          /\ last.ret # <<>> => last.ret[1] = port.num_read

\* C26 as stated: PortReader delivers the sent bytes in order, returns fewer
\* bytes than the buffer holds only when the channel has closed, and once
\* the channel is closed and all bytes are delivered every later read returns
\* None and leaves the buffer untouched.
C26_EveryLaterReadIsEof ==
    /\ StreamThenEof
    /\ (last.op = "read" /\ port.done_at_call) => last.ret = <<>>

\* C26, amended: as C26, but once the channel is closed and all bytes are
\* delivered it is every later read into a buffer of at least one byte that
\* returns None, and every later read at all once a read has returned fewer
\* bytes than its buffer held or None; a read into an empty buffer before
\* that returns Some(0).
C26_StreamThenEof ==
    /\ StreamThenEof
    /\ (last.op = "read" /\ port.done_at_call /\ last.who > 0) => last.ret = <<>>
    /\ (last.op = "read" /\ port.closed_at_call) => last.ret = <<>>
    /\ (last.op = "read" /\ port.done_at_call /\ last.who = 0 /\ ~port.closed_at_call)
          => last.ret = <<0>>

\* three messages, one of them empty, were sent and their four bytes
\* delivered, a read has seen the channel closed, and a later read into a
\* buffer of at least one byte returned None
C26_Witness ==
    /\ last.op = "read" /\ last.ret = <<>> /\ last.who > 0
    /\ port.done_at_call /\ port.closed_at_call
    /\ Len(port.sent) = 3
    /\ \E k \in 1..3 : port.sent[k] = <<>>
    /\ Len(port.got) = 4
    /\ port.sent[1] = <<1, 2>>

---------------------------------------------------------------------------
(* C27: the length of a BitvSet stays within its capacity *)

\* C27: in every state of a BitvSet the length is at most the capacity, so
\* contains(v) is false for every v at or above the capacity and no
\* contains(v) fails.
C27_LengthWithinCapacity ==
    \A i \in {1, 2} :
        /\ sets[i].nbits <= capacity(sets[i])
        /\ \A v \in Values :
              /\ ~contains_fails(sets[i], v)
              /\ v >= capacity(sets[i]) => ~contains(sets[i], v)

---------------------------------------------------------------------------
(* C28: shrink_to_fit adds no member *)

\* C28: every value that is a member after shrink_to_fit was a member
\* before it.
C28_ShrinkAddsNoMember ==
    [][last'.op = "shrink_to_fit" =>
          \A i \in {1, 2} :
              DoShrinkToFit(i) =>
                  \A v \in Values : contains(sets'[i], v) => contains(sets[i], v)
      ]_vars

---------------------------------------------------------------------------
(* A caller that clones and compares BitvSets *)

\* sets[i] = sets[Other(i)].clone(): the derived Clone copies nbits and the
\* storage vector
DoClone(i) ==
    /\ Running
    /\ sets' = [sets EXCEPT ![i] = sets[Other(i)]]
    /\ last' = Call("clone", i, FALSE, FALSE)
    /\ UNCHANGED <<bv, visited, it, yielded, stop_on, v1, port>>

\* sets[i] == sets[Other(i)]: the derived PartialEq compares the two Bitvs
DoSetEq(i) ==
    /\ Running
    /\ last' = Call("BitvSet::eq", i, eq(sets[i], sets[Other(i)]), FALSE)
    /\ UNCHANGED <<bv, sets, visited, it, yielded, stop_on, v1, port>>

NextEq ==
    \/ \E i \in {1, 2}, v \in Values : DoInsert(i, v)
    \/ \E i \in {1, 2}, v \in Values : DoRemove(i, v)
    \/ \E i \in {1, 2} : DoShrinkToFit(i)
    \/ \E i \in {1, 2} : DoClone(i)
    \/ \E i \in {1, 2} : DoSetEq(i)

SpecEq == Init /\ [][NextEq]_vars

---------------------------------------------------------------------------
(* C29: equality and clone of BitvSets *)

\* C29: two BitvSets compare equal exactly when they have the same members,
\* whatever calls produced them; a clone equals its original, and a call on
\* one of the two sets leaves the other as it was.
C29_EqualIffSameMembers ==
    [][/\ last'.op = "BitvSet::eq" =>
            (last'.ret <=> Members(sets[1]) = Members(sets[2]))
       /\ last'.op = "clone" => eq(sets'[1], sets'[2]) /\ eq(sets'[2], sets'[1])
       /\ last'.op \in {"insert", "remove", "shrink_to_fit"} =>
            sets'[Other(last'.who)] = sets[Other(last'.who)]
      ]_vars

\* the part of C29 about clone
C29_CloneIsEqual ==
    [][/\ last'.op = "clone" => eq(sets'[1], sets'[2]) /\ eq(sets'[2], sets'[1])
       /\ last'.op \in {"insert", "remove", "shrink_to_fit"} =>
            sets'[Other(last'.who)] = sets[Other(last'.who)]
      ]_vars

---------------------------------------------------------------------------
(* C30: the frame of Bitv::set *)

\* C30: set(i, x) with i below the length does not fail, makes get(i) = x,
\* leaves get(j) as it was for every other j below the length, and leaves
\* the length as it was.
C30_SetFrame ==
    [][last'.op = "set" =>
          \A i \in 0..MaxBits, x \in BOOLEAN :
              (DoSet(i, x) /\ i < bv.nbits) =>
                  /\ ~last'.failed
                  /\ bv'.nbits = bv.nbits
                  /\ get(bv', i) = x
                  /\ \A j \in 0..(bv.nbits - 1) : j # i => get(bv', j) = get(bv, j)
      ]_vars

\* a vector of W + 1 bits in which set has written on both sides of the
\* word boundary: bit W is 1, bit W - 1 is 0, bit 0 is 1
C30_Witness ==
    /\ last.op = "set" /\ ~last.failed
    /\ bv.nbits = W + 1
    /\ get(bv, W) /\ ~get(bv, W - 1) /\ get(bv, 0)

=============================================================================
